---------------------------- MODULE Spec2Model ----------------------------
(***************************************************************************)
(* Credential and token-lifecycle subsystem of artnikel/blogapi:           *)
(* UserService (SignUp, Login, Refresh, TokensIDCompare, token issuing),   *)
(* the user repository it calls, JWTMiddleware/ValidateToken and the       *)
(* Login/Refresh handlers' error mapping.                                  *)
(*                                                                         *)
(* A JWT string is modelled by the data that determines it: HS256 over a   *)
(* fixed header and the claims {exp, id, isAdmin} is a deterministic       *)
(* function of the claims and the signing key, so two tokens are the same  *)
(* string exactly when these fields agree.  A bcrypt digest is modelled by *)
(* the secret it was made from (the salt is abstracted: comparing never    *)
(* depends on it); sha256 is modelled as injective.                        *)
(***************************************************************************)
EXTENDS Integers, FiniteSets, Sequences, TLC

VARIABLES
    users,    \* table users: id -> row, or NoRow
    now,      \* time.Now().Unix()
    ticks,    \* number of clock advances so far (bounds the run)
    pc,       \* per request goroutine: where it is in its handler, and its locals
    issued,   \* token pairs returned to clients so far
    blogs,    \* table blog: blogid -> row, NoBlog or DeletedBlog
    ev        \* the request that completed in the last step (NoEvent otherwise)

vars == <<users, now, ticks, pc, issued, blogs, ev>>

(***************************** bounds and inputs **************************)
\* clock advances by one second (Spec), clock advances to an expiry (SpecClock),
\* and the number of pairs returned after which no new Login or Refresh starts
MaxTicks == 1
MaxJumps == 2
MaxIssued == 2
\* the number of blogs ever created
MaxBlogs == 2

Procs == {"g1", "g2"}
UserIDs == {1, 2}
BlogIDs == 1..MaxBlogs
Usernames == {"alice", "bob"}
Passwords == {"pw1234", "hunter2"}

\* the registrations requested: username, password, admin
SignUpInputs ==
    {<<"alice", "pw1234", FALSE>>, <<"bob", "hunter2", TRUE>>}
SeqSignUpInputs == {<<"alice", "pw1234", FALSE>>}

(***************************** program constants **************************)
\* user_service.go:36-37, in seconds
AccessTokenExpiration == 900
RefreshTokenExpiration == 259200

\* cfg.BlogTokenSignature, and a key the server does not use
BlogTokenSignature == "secret"
ForeignSignature == "attacker"

\* uuid.Nil / uuid.UUID{}
NilUUID == 0

(***************************** error values *******************************)
\* the wrapping prefix of each error the service returns
ErrExist == "rpsUser.SignUp - ErrExist"
ErrInsert == "rpsUser.SignUp - p.pool.Exec"
ErrGetDataByUsername == "rpsUser.GetDataByUsername"
ErrCheckPasswordHash == "CheckPasswordHash"
ErrValidateToken == "TokensIDCompare - validateToken"
ErrIDMismatch == "TokensIDCompare - user ID in acess token doesn't equal user ID in refresh token"
ErrGetRefreshTokenByID == "rpsUser.GetRefreshTokenByID"
ErrRefreshTokenInvalid == "CheckPasswordHash error: refreshToken invalid"
ErrUUIDParse == "TokensIDCompare - uuid.Parse"
ErrAddRefreshToken == "rpsUser.AddRefreshToken"
\* a failed type assertion x.(T) on a claim: a run-time panic, no error value
ErrPanic == "panic: interface conversion"
ErrForbidden == "rpsUser.DeleteUserByID - admin"
ErrNotFound == "rpsUser.DeleteUserByID - no user"
NoErr == ""

\* the error kinds of the specification's taxonomy (spec 7)
ErrKind(err) ==
    CASE err = NoErr -> "ok"
      [] err = ErrExist -> "AlreadyExists"
      [] err = ErrInsert -> "Unavailable"
      [] err = ErrGetDataByUsername -> "AuthenticationFailed"
      [] err = ErrCheckPasswordHash -> "AuthenticationFailed"
      [] err = ErrValidateToken -> "TokenInvalid"
      [] err = ErrIDMismatch -> "TokenMismatch"
      [] err = ErrGetRefreshTokenByID -> "AuthenticationFailed"
      [] err = ErrRefreshTokenInvalid -> "TokenReuseOrForged"
      [] err = ErrUUIDParse -> "TokenInvalid"
      [] err = ErrAddRefreshToken -> "Unavailable"
      [] err = ErrPanic -> "Crash"
      [] err = ErrForbidden -> "Forbidden"
      [] err = ErrNotFound -> "NotFound"
      [] OTHER -> "Unknown"

(***************************** tokens *************************************)
\* A token is the data its string is made of: the signing key, the claims
\* exp, id, isAdmin, and the shape of the claims object: "ok" when all three
\* claims are present with the types GenerateJWTToken gives them, otherwise
\* the one claim that is absent (no_) or of another JSON type (bad_);
\* bad_uuid is an id that is a string but no UUID.
Shapes == {"ok", "no_exp", "bad_exp", "no_id", "bad_id", "bad_uuid", "no_isAdmin", "bad_isAdmin"}

\* the empty string, as in TokenPair{}
EmptyToken ==
    [kind |-> "empty", key |-> "", exp |-> 0, id |-> NilUUID, isAdmin |-> FALSE, shape |-> "ok"]
EmptyPair == [AccessToken |-> EmptyToken, RefreshToken |-> EmptyToken]

\* GenerateJWTToken at clock value t: exp = t + expiration
JWT(key, exp, id, isAdmin) ==
    [kind |-> "jwt", key |-> key, exp |-> exp, id |-> id, isAdmin |-> isAdmin, shape |-> "ok"]

GenerateJWTToken(expiration, id, isAdmin) ==
    JWT(BlogTokenSignature, now + expiration, id, isAdmin)

\* the claims jwt.Parse hands back for a token (jwt.MapClaims)
ParsedClaims(token) == [exp |-> token.exp, id |-> token.id, isAdmin |-> token.isAdmin]

\* a pair whose two tokens get the same lifetime
GenerateTokenPairOneTTL(id, isAdmin) ==
    [AccessToken  |-> GenerateJWTToken(AccessTokenExpiration, id, isAdmin),
     RefreshToken |-> GenerateJWTToken(AccessTokenExpiration, id, isAdmin)]

GenerateTokenPair(id, isAdmin) ==
    [AccessToken  |-> GenerateJWTToken(AccessTokenExpiration, id, isAdmin),
     RefreshToken |-> GenerateJWTToken(RefreshTokenExpiration, id, isAdmin)]

(***************************** hashing ************************************)
\* a digest of the header and claims that leaves the signature out
Sha256WithoutSignature(token) == [sha256 |-> [token EXCEPT !.key = ""]]

\* sha256.Sum256 of the whole token string: equal digests, equal tokens
Sha256(token) == [sha256 |-> token]

\* the bytes of the secret themselves, kept where a digest belongs
HashPasswordPlain(secret) == [wf |-> FALSE, of |-> secret]

\* bcrypt.GenerateFromPassword: a well-formed digest of the secret
HashPassword(secret) == [wf |-> TRUE, of |-> secret]

\* what is not a bcrypt digest: no password, and a NULL refreshtoken column
NoPasswordDigest == [wf |-> FALSE, of |-> ""]
NoDigest == [wf |-> FALSE, of |-> Sha256(EmptyToken)]

CheckPasswordHashAlwaysTrue(hash, secret) == TRUE

\* bcrypt.CompareHashAndPassword: an error (false) unless hash is a digest made
\* from secret
CheckPasswordHash(hash, secret) ==
    /\ hash.wf
    /\ hash.of = secret

(***************************** token validation ***************************)
\* jwt.Parse's view of the exp claim: a missing exp is not required and is not
\* checked, an exp that is no number is an error
ExpAcceptable(token) == token.shape # "bad_exp"

ValidateTokenNoExpiry(token, secretKey) ==
    /\ token.kind = "jwt"
    /\ token.key = secretKey
    /\ ExpAcceptable(token)

ValidateTokenInclusiveExpiry(token, secretKey) ==
    /\ token.kind = "jwt"
    /\ token.key = secretKey
    /\ ExpAcceptable(token)
    /\ (token.shape = "no_exp" \/ now <= token.exp)

ValidateTokenAnyKey(token, secretKey) ==
    /\ token.kind = "jwt"
    /\ ExpAcceptable(token)
    /\ (token.shape = "no_exp" \/ now < token.exp)

\* middleware.ValidateToken: jwt.Parse (golang-jwt v5) checks the shape, the HMAC
\* signature and the exp claim: valid only while time.Now() is before exp.
\* TRUE when err = nil (the returned token then has Valid = true).
ValidateToken(token, secretKey) ==
    /\ token.kind = "jwt"
    /\ token.key = secretKey
    /\ ExpAcceptable(token)
    /\ (token.shape = "no_exp" \/ now < token.exp)

\* TokensIDCompare on the claims of the validated access token:
\* claims["id"].(string), uuid.Parse, claims["isAdmin"].(bool)
AccessClaims(token) ==
    IF token.shape \in {"no_id", "bad_id"} THEN ErrPanic
    ELSE IF token.shape = "bad_uuid" THEN ErrUUIDParse
    ELSE IF token.shape \in {"no_isAdmin", "bad_isAdmin"} THEN ErrPanic
    ELSE NoErr

\* TokensIDCompare on the claims of the validated refresh token:
\* claims["exp"].(float64), claims["id"].(string), uuid.Parse, exp < now;
\* isAdmin is not read
RefreshClaims(token) ==
    IF token.shape = "no_exp" THEN ErrPanic
    ELSE IF token.shape \in {"no_id", "bad_id"} THEN ErrPanic
    ELSE IF token.shape = "bad_uuid" THEN ErrUUIDParse
    ELSE IF token.exp < now THEN ErrValidateToken
    ELSE NoErr

\* TokensIDCompare that returns the isAdmin claim of the refresh token
TokensIDCompareRefreshFlag(tokenPair) ==
    LET fail(e) == [err |-> e, id |-> NilUUID, isAdmin |-> FALSE] IN
    IF ~ValidateToken(tokenPair.AccessToken, BlogTokenSignature)
    THEN fail(ErrValidateToken)
    ELSE IF AccessClaims(tokenPair.AccessToken) # NoErr
    THEN fail(AccessClaims(tokenPair.AccessToken))
    ELSE IF ~ValidateToken(tokenPair.RefreshToken, BlogTokenSignature)
    THEN fail(ErrValidateToken)
    ELSE IF RefreshClaims(tokenPair.RefreshToken) # NoErr
    THEN fail(RefreshClaims(tokenPair.RefreshToken))
    ELSE IF tokenPair.AccessToken.id # tokenPair.RefreshToken.id
    THEN fail(ErrIDMismatch)
    ELSE [err |-> NoErr, id |-> tokenPair.AccessToken.id,
          isAdmin |-> tokenPair.RefreshToken.isAdmin]

\* TokensIDCompare without the comparison of the two ids
TokensIDCompareNoCompare(tokenPair) ==
    LET fail(e) == [err |-> e, id |-> NilUUID, isAdmin |-> FALSE] IN
    IF ~ValidateToken(tokenPair.AccessToken, BlogTokenSignature)
    THEN fail(ErrValidateToken)
    ELSE IF AccessClaims(tokenPair.AccessToken) # NoErr
    THEN fail(AccessClaims(tokenPair.AccessToken))
    ELSE IF ~ValidateToken(tokenPair.RefreshToken, BlogTokenSignature)
    THEN fail(ErrValidateToken)
    ELSE IF RefreshClaims(tokenPair.RefreshToken) # NoErr
    THEN fail(RefreshClaims(tokenPair.RefreshToken))
    ELSE [err |-> NoErr, id |-> tokenPair.AccessToken.id,
          isAdmin |-> tokenPair.AccessToken.isAdmin]

\* UserService.TokensIDCompare: the access token validated and its claims
\* read, the refresh token validated and its claims read (its exp compared
\* once more), the two id claims compared; id and isAdmin are taken from the
\* access token
TokensIDCompare(tokenPair) ==
    LET fail(e) == [err |-> e, id |-> NilUUID, isAdmin |-> FALSE] IN
    IF ~ValidateToken(tokenPair.AccessToken, BlogTokenSignature)
    THEN fail(ErrValidateToken)
    ELSE IF AccessClaims(tokenPair.AccessToken) # NoErr
    THEN fail(AccessClaims(tokenPair.AccessToken))
    ELSE IF ~ValidateToken(tokenPair.RefreshToken, BlogTokenSignature)
    THEN fail(ErrValidateToken)
    ELSE IF RefreshClaims(tokenPair.RefreshToken) # NoErr
    THEN fail(RefreshClaims(tokenPair.RefreshToken))
    ELSE IF tokenPair.AccessToken.id # tokenPair.RefreshToken.id
    THEN fail(ErrIDMismatch)
    ELSE [err |-> NoErr, id |-> tokenPair.AccessToken.id,
          isAdmin |-> tokenPair.AccessToken.isAdmin]

\* JWTMiddleware on a bearer token: 401, or the next handler (status 0) with the
\* context values id and isAdmin.  claims["exp"].(float64) panics on a token
\* without exp; echo's Recover middleware turns the panic into a 500.
JWTMiddleware(token) ==
    LET stop(code, m) == [status |-> code, msg |-> m, id |-> NilUUID, isAdmin |-> FALSE] IN
    IF ~ValidateToken(token, BlogTokenSignature) THEN stop(401, "Invalid token")
    ELSE IF token.shape = "no_exp" THEN stop(500, ErrPanic)
    ELSE IF token.exp < now THEN stop(401, "Token is expired")
    ELSE IF token.shape \in {"no_id", "bad_id"} THEN stop(401, "Invalid user ID format")
    ELSE IF token.shape = "bad_uuid" THEN stop(401, "Invalid UUID format")
    ELSE IF token.shape \in {"no_isAdmin", "bad_isAdmin"} THEN stop(401, "Invalid isAdmin format")
    ELSE [status |-> 0, msg |-> "next", id |-> token.id, isAdmin |-> token.isAdmin]

(***************************** repository *********************************)
NoRow == [username |-> "", password |-> NoPasswordDigest, admin |-> FALSE, refreshToken |-> NoDigest]

\* what is left of a deleted row: nothing, but its id is never handed out again
DeletedRow == [NoRow EXCEPT !.username = "<deleted>"]

Registered == {id \in UserIDs : users[id] \notin {NoRow, DeletedRow}}

\* a COUNT that never sees a row
CountUsernameNone(username) == 0

\* SELECT COUNT(id) FROM users WHERE username = $1
CountUsername(username) == Cardinality({id \in Registered : users[id].username = username})

\* SELECT id, password, admin FROM users WHERE username = $1: the ids of the rows found
RowsByUsername(username) == {id \in Registered : users[id].username = username}

\* GetRefreshTokenByID: an error when no row has the id or the column is NULL
GetRefreshTokenByID(id) ==
    IF id \in Registered /\ users[id].refreshToken # NoDigest
    THEN [err |-> NoErr, hash |-> users[id].refreshToken]
    ELSE [err |-> ErrGetRefreshTokenByID, hash |-> NoDigest]

\* UPDATE users SET refreshtoken = $1 WHERE id = $2 (no row, no error)
AddRefreshToken(id, hashedRefreshToken) ==
    IF id \in Registered
    THEN [users EXCEPT ![id].refreshToken = hashedRefreshToken]
    ELSE users

(***************************** Refresh, up to its issue step ***************)
\* a Refresh that issues for every pair that passes TokensIDCompare
RefreshCheckNoDigest(tokenPair) == TokensIDCompare(tokenPair).err

\* the error Refresh returns before issuing (NoErr when it goes on to issue)
RefreshCheck(tokenPair) ==
    LET cmp == TokensIDCompare(tokenPair) IN
    IF cmp.err # NoErr THEN cmp.err
    ELSE LET got == GetRefreshTokenByID(cmp.id) IN
         IF got.err # NoErr THEN got.err
         ELSE IF ~CheckPasswordHash(got.hash, Sha256(tokenPair.RefreshToken))
         THEN ErrRefreshTokenInvalid
         ELSE NoErr

\* the Repository methods Refresh has called when it returns before issuing:
\* none when TokensIDCompare fails, otherwise GetRefreshTokenByID
RefreshCalls(tokenPair) ==
    IF TokensIDCompare(tokenPair).err # NoErr THEN {} ELSE {"GetRefreshTokenByID"}

\* GetDataByUsername: the row QueryRow returns for the username, or an error
GetDataByUsername(username) ==
    IF RowsByUsername(username) = {}
    THEN [err |-> ErrGetDataByUsername, id |-> NilUUID, hash |-> NoPasswordDigest, admin |-> FALSE]
    ELSE LET id == CHOOSE i \in RowsByUsername(username) : TRUE IN
         [err |-> NoErr, id |-> id, hash |-> users[id].password, admin |-> users[id].admin]

\* the error Login returns before issuing (NoErr when it goes on to issue)
LoginCheck(username, password) ==
    LET got == GetDataByUsername(username) IN
    IF got.err # NoErr THEN got.err
    ELSE IF ~CheckPasswordHash(got.hash, password) THEN ErrCheckPasswordHash
    ELSE NoErr

(***************************** handlers' responses ************************)
LoginResponseLeaky(err) ==
    IF err = NoErr THEN [status |-> 201, msg |-> "tokens"]
    ELSE [status |-> 500, msg |-> err]

\* Handler.Login: the error is logged, the client gets one fixed message
LoginResponse(err) ==
    IF err = NoErr THEN [status |-> 201, msg |-> "tokens"]
    ELSE [status |-> 500, msg |-> "Failed to log in"]

\* Handler.Refresh; a panic below it is answered by echo's Recover middleware
RefreshResponse(err) ==
    IF err = NoErr THEN [status |-> 200, msg |-> "tokens"]
    ELSE IF err = ErrPanic THEN [status |-> 500, msg |-> ErrPanic]
    ELSE [status |-> 400, msg |-> "Failed to refresh tokens"]

(***************************** blog table ***********************************)
\* a blogid never inserted, and one whose row was deleted
NoBlog == [userid |-> NilUUID, title |-> "", state |-> "none"]
DeletedBlog == [userid |-> NilUUID, title |-> "", state |-> "deleted"]

\* the blogids that have a row
BlogRows == {b \in BlogIDs : blogs[b].state = "row"}

\* SELECT ... FROM blog WHERE userid = $1: the blogids of the rows found
GetByUserID(id) == {b \in BlogRows : blogs[b].userid = id}

\* INSERT INTO blog (blogid, userid, title, content)
BlogCreate(b, userid, title) ==
    [blogs EXCEPT ![b] = [userid |-> userid, title |-> title, state |-> "row"]]

\* DELETE FROM blog WHERE blogid = $1 (no row, no error)
BlogDelete(b) ==
    IF b \in BlogRows THEN [blogs EXCEPT ![b] = DeletedBlog] ELSE blogs

\* DELETE FROM blog WHERE userid = $1
BlogDeleteByUserID(id) ==
    [b \in BlogIDs |-> IF b \in GetByUserID(id) THEN DeletedBlog ELSE blogs[b]]

\* UPDATE blog SET title = $1, content = $2 WHERE blogid = $3 (no row, no error)
BlogUpdate(b, title) ==
    IF b \in BlogRows THEN [blogs EXCEPT ![b].title = title] ELSE blogs

(***************************** requests in flight *************************)
Idle ==
    [at |-> "idle", uname |-> "", pass |-> "", id |-> NilUUID, admin |-> FALSE,
     inPair |-> EmptyPair, newPair |-> EmptyPair, rival |-> FALSE, cancelled |-> FALSE]

NoEvent ==
    [op |-> "none", uname |-> "", pass |-> "", id |-> NilUUID, admin |-> FALSE,
     inPair |-> EmptyPair, outPair |-> EmptyPair, err |-> NoErr, status |-> 0, msg |-> "",
     dup |-> FALSE, target |-> NilUUID, blog |-> 0, calls |-> {}, fault |-> "",
     header |-> ""]

\* every token a client holds, and the same claims signed with a foreign key
KnownTokens == UNION {{q.AccessToken, q.RefreshToken} : q \in issued}
ForgedTokens == {[t EXCEPT !.key = ForeignSignature] : t \in KnownTokens}

\* the pairs a client can present to Refresh: the access token of one pair it
\* holds with the refresh token of another, a refresh token in both places,
\* and a pair with one token re-signed
PresentablePairs ==
    {[AccessToken |-> a.AccessToken, RefreshToken |-> r.RefreshToken] : a \in issued, r \in issued}
    \cup {[AccessToken |-> q.RefreshToken, RefreshToken |-> q.RefreshToken] : q \in issued}
    \cup {[q EXCEPT !.AccessToken.key = ForeignSignature] : q \in issued}
    \cup {[q EXCEPT !.RefreshToken.key = ForeignSignature] : q \in issued}

Init ==
    /\ users = [id \in UserIDs |-> NoRow]
    /\ now = 0
    /\ ticks = 0
    /\ pc = [p \in Procs |-> Idle]
    /\ issued = {}
    /\ blogs = [b \in BlogIDs |-> NoBlog]
    /\ ev = NoEvent

(***************************** clock ***************************************)
\* the clock advances by a second
Tick ==
    /\ ticks < MaxTicks
    /\ now' = now + 1
    /\ ticks' = ticks + 1
    /\ ev' = NoEvent
    /\ UNCHANGED <<users, pc, issued, blogs>>

\* the seconds just before, of and just after the expiry of a token a client holds
ExpiryTargets ==
    {t \in UNION {{k.exp - 1, k.exp, k.exp + 1} : k \in KnownTokens} : t > now}

\* the clock advances to a second around an expiry
TickToExpiry ==
    /\ ticks < MaxJumps
    /\ \E t \in ExpiryTargets : now' = t
    /\ ticks' = ticks + 1
    /\ ev' = NoEvent
    /\ UNCHANGED <<users, pc, issued, blogs>>

(***************************** SignUp **************************************)
\* ids uuid.New() can still return
FreeIDs == {id \in UserIDs : users[id] = NoRow} \ {pc[p].id : p \in {q \in Procs : pc[q].at = "signup_insert"}}

\* uuid.New(): an id never returned before; ids are only ever compared for
\* equality, so one representative of the unused ids stands for any of them
NewUUID == CHOOSE id \in FreeIDs : \A other \in FreeIDs : id <= other

\* an INSERT the table lets through whatever rows it holds
UniqueUsernameNotEnforced(username) == FALSE

\* the users table rejects a second row with a username it holds
UniqueUsernameViolated(username) ==
    \E id \in Registered : users[id].username = username

\* Handler.SignUpUser/SignUpAdmin -> UserService.SignUp -> PgRepository.SignUp,
\* up to the COUNT query
SignUp(p, username, password, admin) ==
    /\ pc[p].at = "idle"
    /\ IF CountUsername(username) # 0
       THEN /\ ev' = [NoEvent EXCEPT !.op = "signup", !.uname = username,
                                     !.pass = password, !.admin = admin,
                                     !.err = ErrExist, !.status = 500,
                                     !.msg = "Failed to sign up user", !.fault = "SignUp"]
            /\ pc' = pc
       ELSE /\ FreeIDs # {}
            /\ pc' = [pc EXCEPT ![p] = [Idle EXCEPT !.at = "signup_insert", !.uname = username,
                                                    !.pass = password, !.id = NewUUID,
                                                    !.admin = admin]]
            /\ ev' = NoEvent
    /\ UNCHANGED <<users, now, ticks, issued, blogs>>

\* PgRepository.SignUp: the INSERT, made with the caller's context (it fails
\* when the context is cancelled), and the return to the client
SignUpInsert(p) ==
    /\ pc[p].at = "signup_insert"
    /\ LET l == pc[p]
           base == [NoEvent EXCEPT !.op = "signup", !.uname = l.uname,
                                   !.pass = l.pass, !.admin = l.admin, !.id = l.id]
       IN IF l.cancelled \/ UniqueUsernameViolated(l.uname)
          THEN /\ users' = users
               /\ ev' = [base EXCEPT !.err = ErrInsert, !.status = 500,
                                     !.msg = "Failed to sign up user", !.fault = "SignUp"]
          ELSE /\ users' = [users EXCEPT ![l.id] =
                              [username |-> l.uname, password |-> HashPassword(l.pass),
                               admin |-> l.admin, refreshToken |-> NoDigest]]
               /\ ev' = [base EXCEPT !.status = 201,
                                     !.msg = IF l.admin THEN "Admin created" ELSE "User created"]
    /\ pc' = [pc EXCEPT ![p] = Idle]
    /\ UNCHANGED <<now, ticks, issued, blogs>>

(***************************** Login ***************************************)
\* Handler.Login -> UserService.Login up to CheckPasswordHash
LoginBegin(p, username, password) ==
    /\ pc[p].at = "idle"
    /\ LET err == LoginCheck(username, password)
           got == GetDataByUsername(username)
           resp == LoginResponse(err)
       IN IF err # NoErr
          THEN /\ ev' = [NoEvent EXCEPT !.op = "login", !.uname = username,
                                        !.pass = password, !.id = got.id, !.admin = got.admin,
                                        !.err = err, !.status = resp.status, !.msg = resp.msg,
                                        !.calls = {"GetDataByUsername"},
                                        !.fault = IF got.err # NoErr THEN "GetDataByUsername"
                                                  ELSE ""]
               /\ pc' = pc
          ELSE /\ Cardinality(issued) < MaxIssued
               /\ pc' = [pc EXCEPT ![p] = [Idle EXCEPT !.at = "login_issue", !.uname = username,
                                                        !.pass = password, !.id = got.id,
                                                        !.admin = got.admin]]
               /\ ev' = NoEvent
    /\ UNCHANGED <<users, now, ticks, issued, blogs>>

\* GenerateTokenPair (reads the clock), sha256 and HashPassword of the refresh token
LoginIssue(p) ==
    /\ pc[p].at = "login_issue"
    /\ pc' = [pc EXCEPT ![p].at = "login_store",
                        ![p].newPair = GenerateTokenPair(pc[p].id, pc[p].admin)]
    /\ ev' = NoEvent
    /\ UNCHANGED <<users, now, ticks, issued, blogs>>

\* AddRefreshToken, and the return of the pair to the client
LoginStore(p) ==
    /\ pc[p].at = "login_store"
    /\ LET l == pc[p]
           resp == LoginResponse(NoErr)
       IN /\ users' = AddRefreshToken(l.id, HashPassword(Sha256(l.newPair.RefreshToken)))
          /\ issued' = issued \cup {l.newPair}
          /\ ev' = [NoEvent EXCEPT !.op = "login", !.uname = l.uname, !.pass = l.pass,
                                   !.id = l.id, !.admin = l.admin, !.outPair = l.newPair,
                                   !.status = resp.status, !.msg = resp.msg,
                                   !.calls = {"GetDataByUsername", "AddRefreshToken"}]
    /\ pc' = [pc EXCEPT ![p] = Idle]
    /\ UNCHANGED <<now, ticks, blogs>>

\* a failed store whose error is dropped: the pair is returned all the same
LoginStoreFailSwallowed(p) ==
    /\ pc[p].at = "login_store"
    /\ LET l == pc[p]
           resp == LoginResponse(NoErr)
       IN /\ issued' = issued \cup {l.newPair}
          /\ ev' = [NoEvent EXCEPT !.op = "login", !.uname = l.uname, !.pass = l.pass,
                                   !.id = l.id, !.admin = l.admin, !.outPair = l.newPair,
                                   !.status = resp.status, !.msg = resp.msg,
                                   !.calls = {"GetDataByUsername", "AddRefreshToken"},
                                   !.fault = "AddRefreshToken"]
    /\ pc' = [pc EXCEPT ![p] = Idle]
    /\ UNCHANGED <<users, now, ticks, blogs>>

\* AddRefreshToken returns an error (the UPDATE was not carried out): Login
\* returns &TokenPair{} and the error, the handler answers 500
LoginStoreFail(p) ==
    /\ pc[p].at = "login_store"
    /\ LET l == pc[p]
           resp == LoginResponse(ErrAddRefreshToken)
       IN ev' = [NoEvent EXCEPT !.op = "login", !.uname = l.uname, !.pass = l.pass,
                                !.id = l.id, !.admin = l.admin, !.err = ErrAddRefreshToken,
                                !.status = resp.status, !.msg = resp.msg,
                                !.calls = {"GetDataByUsername", "AddRefreshToken"},
                                !.fault = "AddRefreshToken"]
    /\ pc' = [pc EXCEPT ![p] = Idle]
    /\ UNCHANGED <<users, now, ticks, issued, blogs>>

(***************************** Refresh *************************************)
\* Handler.Refresh -> UserService.Refresh up to CheckPasswordHash:
\* TokensIDCompare, GetRefreshTokenByID, the digest check
RefreshBegin(p, tokenPair) ==
    /\ pc[p].at = "idle"
    /\ LET err == RefreshCheck(tokenPair)
           cmp == TokensIDCompare(tokenPair)
           resp == RefreshResponse(err)
       IN IF err # NoErr
          THEN /\ ev' = [NoEvent EXCEPT !.op = "refresh", !.id = cmp.id,
                                        !.admin = cmp.isAdmin, !.inPair = tokenPair,
                                        !.err = err, !.status = resp.status, !.msg = resp.msg,
                                        !.calls = RefreshCalls(tokenPair),
                                        !.fault = IF err = ErrGetRefreshTokenByID
                                                  THEN "GetRefreshTokenByID" ELSE ""]
               /\ pc' = pc
          ELSE /\ Cardinality(issued) < MaxIssued
               /\ pc' = [pc EXCEPT ![p] = [Idle EXCEPT !.at = "refresh_issue", !.id = cmp.id,
                                                        !.admin = cmp.isAdmin,
                                                        !.inPair = tokenPair]]
               /\ ev' = NoEvent
    /\ UNCHANGED <<users, now, ticks, issued, blogs>>

\* GenerateTokenPair (reads the clock), sha256 and HashPassword of the new refresh token
RefreshIssue(p) ==
    /\ pc[p].at = "refresh_issue"
    /\ pc' = [pc EXCEPT ![p].at = "refresh_store",
                        ![p].newPair = GenerateTokenPair(pc[p].id, pc[p].admin)]
    /\ ev' = NoEvent
    /\ UNCHANGED <<users, now, ticks, issued, blogs>>

\* the other Refresh calls in flight that presented the pair p presented
Rivals(p) ==
    {q \in Procs \ {p} : /\ pc[q].at \in {"refresh_issue", "refresh_store"}
                         /\ pc[q].inPair = pc[p].inPair}

\* AddRefreshToken, and the return of the new pair to the client.  rival/dup
\* record that another call presenting the same pair returned a pair with a
\* new refresh token while this one was in flight.
RefreshStore(p) ==
    /\ pc[p].at = "refresh_store"
    /\ LET l == pc[p]
           resp == RefreshResponse(NoErr)
           fresh == l.newPair.RefreshToken # l.inPair.RefreshToken
       IN /\ users' = AddRefreshToken(l.id, HashPassword(Sha256(l.newPair.RefreshToken)))
          /\ issued' = issued \cup {l.newPair}
          /\ ev' = [NoEvent EXCEPT !.op = "refresh", !.id = l.id, !.admin = l.admin,
                                   !.inPair = l.inPair, !.outPair = l.newPair,
                                   !.status = resp.status, !.msg = resp.msg,
                                   !.dup = l.rival /\ fresh,
                                   !.calls = {"GetRefreshTokenByID", "AddRefreshToken"}]
          /\ pc' = [q \in Procs |->
                      IF q = p THEN Idle
                      ELSE IF q \in Rivals(p) /\ fresh THEN [pc[q] EXCEPT !.rival = TRUE]
                      ELSE pc[q]]
    /\ UNCHANGED <<now, ticks, blogs>>

\* a failed store that has written the new digest before the error is returned
RefreshStoreFailAfterWrite(p) ==
    /\ pc[p].at = "refresh_store"
    /\ LET l == pc[p]
           resp == RefreshResponse(ErrAddRefreshToken)
       IN /\ users' = AddRefreshToken(l.id, HashPassword(Sha256(l.newPair.RefreshToken)))
          /\ ev' = [NoEvent EXCEPT !.op = "refresh", !.id = l.id, !.admin = l.admin,
                                   !.inPair = l.inPair, !.err = ErrAddRefreshToken,
                                   !.status = resp.status, !.msg = resp.msg,
                                   !.calls = {"GetRefreshTokenByID", "AddRefreshToken"},
                                   !.fault = "AddRefreshToken"]
    /\ pc' = [pc EXCEPT ![p] = Idle]
    /\ UNCHANGED <<now, ticks, issued, blogs>>

\* AddRefreshToken returns an error (the UPDATE was not carried out): Refresh
\* returns &TokenPair{} and the error, the handler answers 400
RefreshStoreFail(p) ==
    /\ pc[p].at = "refresh_store"
    /\ LET l == pc[p]
           resp == RefreshResponse(ErrAddRefreshToken)
       IN ev' = [NoEvent EXCEPT !.op = "refresh", !.id = l.id, !.admin = l.admin,
                                !.inPair = l.inPair, !.err = ErrAddRefreshToken,
                                !.status = resp.status, !.msg = resp.msg,
                                !.calls = {"GetRefreshTokenByID", "AddRefreshToken"},
                                !.fault = "AddRefreshToken"]
    /\ pc' = [pc EXCEPT ![p] = Idle]
    /\ UNCHANGED <<users, now, ticks, issued, blogs>>

(***************************** the caller's context ************************)
\* the context of the request p is serving (c.Request().Context()) is
\* cancelled: the client has gone or the deadline has passed
Cancel(p) ==
    /\ pc[p].at # "idle"
    /\ ~pc[p].cancelled
    /\ pc' = [pc EXCEPT ![p].cancelled = TRUE]
    /\ ev' = NoEvent
    /\ UNCHANGED <<users, now, ticks, issued, blogs>>

(***************************** protected request ***************************)
\* a request to a route behind JWTMiddleware, bearing a token the client holds
\* or one signed with a foreign key
Authenticate(token) ==
    /\ LET r == JWTMiddleware(token)
       IN ev' = [NoEvent EXCEPT !.op = "auth", !.id = r.id, !.admin = r.isAdmin,
                                !.inPair = [AccessToken |-> token, RefreshToken |-> EmptyToken],
                                !.status = r.status, !.msg = r.msg]
    /\ UNCHANGED <<users, now, ticks, pc, issued, blogs>>

\* the forms of an Authorization header: absent, "Bearer <token>", the scheme
\* in another case, another scheme, and three space-separated parts
HeaderForms == {"", "Bearer", "bearer", "Basic", "Bearer x"}

\* a header whatever the first of its two parts
ExtractTokenAnyScheme(form, token) ==
    IF form \in {"Bearer", "bearer", "Basic"} THEN token ELSE EmptyToken

\* extractTokenFromHeader: the second part when the header has two parts and
\* the first is "bearer" in any case, otherwise the empty string
ExtractTokenFromHeader(form, token) ==
    IF form \in {"Bearer", "bearer"} THEN token ELSE EmptyToken

\* JWTMiddleware from the header on
JWTMiddlewareHeader(form, token) ==
    LET stop(code, m) == [status |-> code, msg |-> m, id |-> NilUUID, isAdmin |-> FALSE]
        tokenString == ExtractTokenFromHeader(form, token)
    IN IF form = "" THEN stop(401, "Missing authorization header")
       ELSE IF tokenString = EmptyToken THEN stop(401, "Invalid authorization header format")
       ELSE JWTMiddleware(tokenString)

\* a request to a protected route with an Authorization header of some form
Request(form, token) ==
    /\ LET r == JWTMiddlewareHeader(form, token)
       IN ev' = [NoEvent EXCEPT !.op = "request", !.header = form, !.id = r.id,
                                !.admin = r.isAdmin, !.inPair.AccessToken = token,
                                !.status = r.status, !.msg = r.msg]
    /\ UNCHANGED <<users, now, ticks, pc, issued, blogs>>

(***************************** SignUpUser, SignUpAdmin *********************)
\* Handler.SignUpUser: Admin is false
SignUpUser(p, username, password) == SignUp(p, username, password, FALSE)

\* a context that passed the middleware, whatever its isAdmin
AdminInContextAny(ctx) == ctx.status = 0

\* Handler.SignUpAdmin: isAdmin, ok := c.Get("isAdmin").(bool); ok && isAdmin
AdminInContext(ctx) == ctx.status = 0 /\ ctx.isAdmin

\* POST /signupadmin with a bearer token: JWTMiddleware, Handler.SignUpAdmin,
\* then UserService.SignUp up to the COUNT query, with Admin true
SignUpAdmin(p, token, username, password) ==
    /\ pc[p].at = "idle"
    /\ LET ctx == JWTMiddleware(token)
           base == [NoEvent EXCEPT !.op = "signupadmin", !.uname = username,
                                   !.pass = password, !.inPair.AccessToken = token,
                                   !.id = ctx.id, !.admin = ctx.isAdmin]
       IN IF ctx.status # 0
          THEN /\ ev' = [base EXCEPT !.status = ctx.status, !.msg = ctx.msg]
               /\ pc' = pc
          ELSE IF ~AdminInContext(ctx)
          THEN /\ ev' = [base EXCEPT !.status = 401, !.msg = "Admin role not found in context"]
               /\ pc' = pc
          ELSE IF CountUsername(username) # 0
          THEN /\ ev' = [base EXCEPT !.admin = TRUE, !.err = ErrExist, !.status = 500,
                                     !.msg = "Failed to sign up admin", !.fault = "SignUp"]
               /\ pc' = pc
          ELSE /\ FreeIDs # {}
               /\ pc' = [pc EXCEPT ![p] = [Idle EXCEPT !.at = "signup_insert", !.uname = username,
                                                       !.pass = password, !.id = NewUUID,
                                                       !.admin = TRUE,
                                                       !.inPair.AccessToken = token]]
               /\ ev' = NoEvent
    /\ UNCHANGED <<users, now, ticks, issued, blogs>>

(***************************** DeleteUserByID ******************************)
\* PgRepository.DeleteUserByID: an error when no row has the id, an error and
\* no change when the row is an admin, otherwise the row is deleted
RpsDeleteUserByID(id) ==
    IF id \notin Registered THEN [err |-> ErrNotFound, users |-> users]
    ELSE IF users[id].admin THEN [err |-> ErrForbidden, users |-> users]
    ELSE [err |-> NoErr, users |-> [users EXCEPT ![id] = DeletedRow]]

\* the repository's error dropped on the way up
SrvDeleteUserByIDSwallow(id) == [RpsDeleteUserByID(id) EXCEPT !.err = NoErr]

\* UserService.DeleteUserByID: returns, wrapped, the error of the repository
SrvDeleteUserByID(id) == RpsDeleteUserByID(id)

\* DELETE /user/:id, asked by a privileged or an unprivileged requester
DeleteUserByID(p, id, requesterIsPrivileged) ==
    /\ pc[p].at = "idle"
    /\ LET r == SrvDeleteUserByID(id)
       IN /\ users' = r.users
          /\ ev' = [NoEvent EXCEPT !.op = "deleteuser", !.target = id,
                                   !.uname = users[id].username,
                                   !.admin = requesterIsPrivileged, !.err = r.err]
    /\ UNCHANGED <<now, ticks, pc, issued, blogs>>

(***************************** blog handlers *******************************)
\* uuid.New() for a blog: an id never used before
FreeBlogIDs == {b \in BlogIDs : blogs[b] = NoBlog}
NewBlogID == CHOOSE b \in FreeBlogIDs : \A other \in FreeBlogIDs : b <= other

\* what a handler answers to a request the middleware stopped
Stopped(ctx) == [status |-> ctx.status, calls |-> {}, blogs |-> blogs]

\* the JSON bodies of POST /blog: a user id or none (NilUUID), and a blog id
\* that is the id of a row of the table or none (0)
CreateBodies ==
    [blogid : {0} \cup BlogRows, userid : {NilUUID} \cup UserIDs, title : {"draft"}]

\* newBlog.BlogID after c.Bind: uuid.New() unless the body names a blog id
BoundBlogID(body) == IF body.blogid = 0 THEN NewBlogID ELSE body.blogid

\* Create that keeps the user id the body was bound with
HandlerCreateFromBody(ctx, body) ==
    IF ctx.status # 0 THEN Stopped(ctx)
    ELSE IF BoundBlogID(body) \in BlogRows
    THEN [status |-> 500, calls |-> {"Create"}, blogs |-> blogs]
    ELSE [status |-> 201, calls |-> {"Create"},
          blogs |-> BlogCreate(BoundBlogID(body),
                               IF body.userid = NilUUID THEN ctx.id ELSE body.userid,
                               body.title)]

\* Handler.Create behind the middleware: c.Bind fills newBlog from the body,
\* then newBlog.UserID = userID, the id in the context; the INSERT fails on the
\* primary key when the table holds a row with the blog id
HandlerCreate(ctx, body) ==
    IF ctx.status # 0 THEN Stopped(ctx)
    ELSE IF BoundBlogID(body) \in BlogRows
    THEN [status |-> 500, calls |-> {"Create"}, blogs |-> blogs]
    ELSE [status |-> 201, calls |-> {"Create"},
          blogs |-> BlogCreate(BoundBlogID(body), ctx.id, body.title)]

\* Delete that deletes for every requester
HandlerDeleteAnyone(ctx, b) ==
    IF ctx.status # 0 THEN Stopped(ctx)
    ELSE [status |-> 200, calls |-> {"Delete"}, blogs |-> BlogDelete(b)]

\* Handler.Delete: an admin deletes any blog; anyone else only a blog found
\* among GetByUserID of the own id, and gets 404 otherwise
HandlerDelete(ctx, b) ==
    IF ctx.status # 0 THEN Stopped(ctx)
    ELSE IF ctx.isAdmin
    THEN [status |-> 200, calls |-> {"Delete"}, blogs |-> BlogDelete(b)]
    ELSE IF b \in GetByUserID(ctx.id)
    THEN [status |-> 200, calls |-> {"GetByUserID", "Delete"}, blogs |-> BlogDelete(b)]
    ELSE [status |-> 404, calls |-> {"GetByUserID"}, blogs |-> blogs]

\* Handler.DeleteByUserID: 403 when the path id is not the requester's and the
\* requester is no admin; otherwise srvBlog.DeleteByUserID(ctx, userID), userID
\* being the id in the context
HandlerDeleteByUserID(ctx, uuidID) ==
    IF ctx.status # 0 THEN Stopped(ctx)
    ELSE IF ctx.id # uuidID /\ ~ctx.isAdmin
    THEN [status |-> 403, calls |-> {}, blogs |-> blogs]
    ELSE [status |-> 200, calls |-> {"DeleteByUserID"}, blogs |-> BlogDeleteByUserID(ctx.id)]

\* Handler.Update: as Delete
HandlerUpdate(ctx, b, title) ==
    IF ctx.status # 0 THEN Stopped(ctx)
    ELSE IF ctx.isAdmin
    THEN [status |-> 200, calls |-> {"Update"}, blogs |-> BlogUpdate(b, title)]
    ELSE IF b \in GetByUserID(ctx.id)
    THEN [status |-> 200, calls |-> {"GetByUserID", "Update"}, blogs |-> BlogUpdate(b, title)]
    ELSE [status |-> 404, calls |-> {"GetByUserID"}, blogs |-> blogs]

\* the event of a blog request
BlogEvent(op, token, ctx, r, b, uuidID) ==
    [NoEvent EXCEPT !.op = op, !.inPair.AccessToken = token, !.id = ctx.id,
                    !.admin = ctx.isAdmin, !.status = r.status, !.calls = r.calls,
                    !.blog = b, !.target = uuidID]

\* POST /blog; the event keeps the blog id after c.Bind and the user id of the body
Create(token, body) ==
    /\ FreeBlogIDs # {}
    /\ LET ctx == JWTMiddleware(token)
           r == HandlerCreate(ctx, body)
       IN /\ blogs' = r.blogs
          /\ ev' = BlogEvent("Create", token, ctx, r, BoundBlogID(body), body.userid)
    /\ UNCHANGED <<users, now, ticks, pc, issued>>

\* DELETE /blog/:id
Delete(token, b) ==
    /\ LET ctx == JWTMiddleware(token)
           r == HandlerDelete(ctx, b)
       IN /\ blogs' = r.blogs
          /\ ev' = BlogEvent("Delete", token, ctx, r, b, NilUUID)
    /\ UNCHANGED <<users, now, ticks, pc, issued>>

\* DELETE /blogs/user/:id
DeleteByUserID(token, uuidID) ==
    /\ LET ctx == JWTMiddleware(token)
           r == HandlerDeleteByUserID(ctx, uuidID)
       IN /\ blogs' = r.blogs
          /\ ev' = BlogEvent("DeleteByUserID", token, ctx, r, 0, uuidID)
    /\ UNCHANGED <<users, now, ticks, pc, issued>>

\* PUT /blog
Update(token, b, title) ==
    /\ LET ctx == JWTMiddleware(token)
           r == HandlerUpdate(ctx, b, title)
       IN /\ blogs' = r.blogs
          /\ ev' = BlogEvent("Update", token, ctx, r, b, NilUUID)
    /\ UNCHANGED <<users, now, ticks, pc, issued>>

(***************************** specification *******************************)
\* concurrent requests of two goroutines
Next ==
    \/ Tick
    \/ \E p \in Procs, i \in SignUpInputs : SignUp(p, i[1], i[2], i[3])
    \/ \E p \in Procs : SignUpInsert(p)
    \/ \E p \in Procs, u \in Usernames, w \in Passwords : LoginBegin(p, u, w)
    \/ \E p \in Procs : LoginIssue(p)
    \/ \E p \in Procs : LoginStore(p)
    \/ \E p \in Procs, q \in PresentablePairs : RefreshBegin(p, q)
    \/ \E p \in Procs : RefreshIssue(p)
    \/ \E p \in Procs : RefreshStore(p)

Spec == Init /\ [][Next]_vars

\* one client, one request at a time, over the lifetime of its tokens
SeqProcs == {"g1"}

NextClock ==
    \/ TickToExpiry
    \/ \E p \in SeqProcs, i \in SeqSignUpInputs : SignUp(p, i[1], i[2], i[3])
    \/ \E p \in SeqProcs : SignUpInsert(p)
    \/ \E p \in SeqProcs, u \in Usernames, w \in Passwords : LoginBegin(p, u, w)
    \/ \E p \in SeqProcs : LoginIssue(p)
    \/ \E p \in SeqProcs : LoginStore(p)
    \/ \E p \in SeqProcs, q \in PresentablePairs : RefreshBegin(p, q)
    \/ \E p \in SeqProcs : RefreshIssue(p)
    \/ \E p \in SeqProcs : RefreshStore(p)
    \/ \E t \in KnownTokens \cup ForgedTokens : Authenticate(t)

SpecClock == Init /\ [][NextClock]_vars

\* one client at a time against a database whose UPDATE may fail
NextFaulty ==
    \/ Tick
    \/ \E p \in SeqProcs, i \in SignUpInputs : SignUp(p, i[1], i[2], i[3])
    \/ \E p \in SeqProcs : SignUpInsert(p)
    \/ \E p \in SeqProcs, u \in Usernames, w \in Passwords : LoginBegin(p, u, w)
    \/ \E p \in SeqProcs : LoginIssue(p)
    \/ \E p \in SeqProcs : LoginStore(p)
    \/ \E p \in SeqProcs : LoginStoreFail(p)
    \/ \E p \in SeqProcs, q \in PresentablePairs : RefreshBegin(p, q)
    \/ \E p \in SeqProcs : RefreshIssue(p)
    \/ \E p \in SeqProcs : RefreshStore(p)
    \/ \E p \in SeqProcs : RefreshStoreFail(p)

SpecFaulty == Init /\ [][NextFaulty]_vars

\* pairs whose access token, signed with the server's key, carries the other
\* value of isAdmin: TokensIDCompare takes any two tokens under the key
OtherFlagPairs ==
    {[q EXCEPT !.AccessToken.isAdmin = ~q.AccessToken.isAdmin] : q \in issued}

\* one client at a time; Refresh is also given pairs of two tokens under the
\* server's key whose isAdmin claims differ
NextSigned ==
    \/ \E p \in SeqProcs, i \in SignUpInputs : SignUp(p, i[1], i[2], i[3])
    \/ \E p \in SeqProcs : SignUpInsert(p)
    \/ \E p \in SeqProcs, u \in Usernames, w \in Passwords : LoginBegin(p, u, w)
    \/ \E p \in SeqProcs : LoginIssue(p)
    \/ \E p \in SeqProcs : LoginStore(p)
    \/ \E p \in SeqProcs, q \in PresentablePairs \cup OtherFlagPairs : RefreshBegin(p, q)
    \/ \E p \in SeqProcs : RefreshIssue(p)
    \/ \E p \in SeqProcs : RefreshStore(p)

SpecSigned == Init /\ [][NextSigned]_vars

\* one client at a time whose requests may be cancelled while they are served
NextCancel ==
    \/ \E p \in SeqProcs, i \in SignUpInputs : SignUp(p, i[1], i[2], i[3])
    \/ \E p \in SeqProcs : SignUpInsert(p)
    \/ \E p \in SeqProcs, u \in Usernames, w \in Passwords : LoginBegin(p, u, w)
    \/ \E p \in SeqProcs : LoginIssue(p)
    \/ \E p \in SeqProcs : LoginStore(p)
    \/ \E p \in SeqProcs, q \in PresentablePairs : RefreshBegin(p, q)
    \/ \E p \in SeqProcs : RefreshIssue(p)
    \/ \E p \in SeqProcs : RefreshStore(p)
    \/ \E p \in SeqProcs : Cancel(p)

SpecCancel == Init /\ [][NextCancel]_vars

\* the service with an admin in the users table: one client at a time signs
\* up, logs in, deletes identities and works on blogs
SeedAdmin ==
    [username |-> "bob", password |-> HashPassword("hunter2"), admin |-> TRUE,
     refreshToken |-> NoDigest]

InitSeeded ==
    /\ users = [id \in UserIDs |-> IF id = Cardinality(UserIDs) THEN SeedAdmin ELSE NoRow]
    /\ now = 0
    /\ ticks = 0
    /\ pc = [p \in Procs |-> Idle]
    /\ issued = {}
    /\ blogs = [b \in BlogIDs |-> NoBlog]
    /\ ev = NoEvent

\* the bearer tokens a client sends: any token it holds, or an access token
\* re-signed with another key
BearerTokens ==
    KnownTokens \cup {[q.AccessToken EXCEPT !.key = ForeignSignature] : q \in issued}

NextSeeded ==
    \/ \E p \in SeqProcs, i \in SeqSignUpInputs : SignUpUser(p, i[1], i[2])
    \/ \E p \in SeqProcs, t \in BearerTokens, i \in SeqSignUpInputs : SignUpAdmin(p, t, i[1], i[2])
    \/ \E p \in SeqProcs : SignUpInsert(p)
    \/ \E p \in SeqProcs, u \in Usernames, w \in Passwords : LoginBegin(p, u, w)
    \/ \E p \in SeqProcs : LoginIssue(p)
    \/ \E p \in SeqProcs : LoginStore(p)
    \/ \E p \in SeqProcs, id \in UserIDs, a \in BOOLEAN : DeleteUserByID(p, id, a)
    \/ \E t \in BearerTokens, body \in CreateBodies : Create(t, body)
    \/ \E t \in BearerTokens, b \in BlogIDs : Delete(t, b)
    \/ \E t \in BearerTokens, id \in UserIDs : DeleteByUserID(t, id)
    \/ \E t \in BearerTokens, b \in BlogIDs : Update(t, b, "edited")

SpecSeeded == InitSeeded /\ [][NextSeeded]_vars

\* tokens a client makes of the ones it holds: the admin claim set and the
\* token re-signed with its own key
EscalatedTokens ==
    {[t EXCEPT !.isAdmin = TRUE, !.key = ForeignSignature] : t \in KnownTokens}
EscalationPairs ==
    {[q EXCEPT !.AccessToken.isAdmin = TRUE, !.AccessToken.key = ForeignSignature] : q \in issued}

\* tokens under the server's signature whose claims object lacks a claim or
\* holds one of another type, and the pairs holding one of them
Defects == Shapes \ {"ok"}
CraftedTokens == {[t EXCEPT !.shape = d] : t \in KnownTokens, d \in Defects}
CraftedPairs ==
    {[q EXCEPT !.AccessToken.shape = d] : q \in issued, d \in Defects}
    \cup {[q EXCEPT !.RefreshToken.shape = d] : q \in issued, d \in Defects}

\* tokens whose header names a signing method that is not of the HMAC family
\* (the keyfunc of ValidateToken refuses them), and the pairs holding one
OtherAlgTokens == {[t EXCEPT !.kind = "jwt-rs256"] : t \in KnownTokens}
OtherAlgPairs ==
    {[q EXCEPT !.AccessToken.kind = "jwt-rs256"] : q \in issued}
    \cup {[q EXCEPT !.RefreshToken.kind = "jwt-rs256"] : q \in issued}

\* pairs of an access token with a defect in its claims and a refresh token
\* signed with another key
CraftedForgedPairs ==
    {[q EXCEPT !.AccessToken.shape = d, !.RefreshToken.key = ForeignSignature] :
        q \in issued, d \in Defects}

\* one client that signs up, logs in and, over the lifetime of its tokens,
\* calls protected routes with every form of header and with tokens it holds,
\* has re-signed, or that carry a defect
NextGate ==
    \/ TickToExpiry
    \/ \E p \in SeqProcs, i \in SeqSignUpInputs : SignUp(p, i[1], i[2], i[3])
    \/ \E p \in SeqProcs : SignUpInsert(p)
    \/ \E p \in SeqProcs, u \in Usernames, w \in Passwords : LoginBegin(p, u, w)
    \/ \E p \in SeqProcs : LoginIssue(p)
    \/ \E p \in SeqProcs : LoginStore(p)
    \/ \E form \in HeaderForms, t \in KnownTokens : Request(form, t)
    \/ \E t \in ForgedTokens \cup CraftedTokens \cup OtherAlgTokens : Request("Bearer", t)

SpecGate == Init /\ [][NextGate]_vars

\* the service started on an empty users table: one client at a time signs
\* up, logs in, refreshes and calls protected routes, with the tokens it holds
\* and with tokens it has tampered with
NextNoAdmin ==
    \/ \E p \in SeqProcs, i \in SignUpInputs : SignUpUser(p, i[1], i[2])
    \/ \E p \in SeqProcs, t \in KnownTokens \cup EscalatedTokens, i \in SignUpInputs :
           SignUpAdmin(p, t, i[1], i[2])
    \/ \E p \in SeqProcs : SignUpInsert(p)
    \/ \E p \in SeqProcs, u \in Usernames, w \in Passwords : LoginBegin(p, u, w)
    \/ \E p \in SeqProcs : LoginIssue(p)
    \/ \E p \in SeqProcs : LoginStore(p)
    \/ \E p \in SeqProcs, q \in PresentablePairs \cup EscalationPairs \cup CraftedPairs
                                  \cup OtherAlgPairs \cup CraftedForgedPairs :
           RefreshBegin(p, q)
    \/ \E p \in SeqProcs : RefreshIssue(p)
    \/ \E p \in SeqProcs : RefreshStore(p)
    \/ \E t \in KnownTokens \cup EscalatedTokens \cup CraftedTokens \cup OtherAlgTokens :
           Authenticate(t)
    \/ \E p \in SeqProcs, id \in UserIDs, a \in BOOLEAN : DeleteUserByID(p, id, a)

SpecNoAdmin == Init /\ [][NextNoAdmin]_vars

(***************************** claims **************************************)
\* a registration of username with password has succeeded
SignedUp(username, password) ==
    \E id \in Registered : /\ users[id].username = username
                           /\ users[id].password = HashPassword(password)

\* the stored digest of id passes the check for this refresh token
Accepted(id, token) ==
    /\ GetRefreshTokenByID(id).err = NoErr
    /\ CheckPasswordHash(GetRefreshTokenByID(id).hash, Sha256(token))

\* every token that exists: returned to a client, generated by a call in flight,
\* or re-signed by a client
AllTokens ==
    KnownTokens \cup ForgedTokens
    \cup UNION {{pc[p].newPair.AccessToken, pc[p].newPair.RefreshToken} :
                  p \in {q \in Procs : pc[q].at \in {"login_store", "refresh_store"}}}

RefreshOk == ev.op = "refresh" /\ ev.err = NoErr
LoginOk == ev.op = "login" /\ ev.err = NoErr

\* C1: rotation. Right after a successful Refresh(pairA) has returned pairB, a
\* further Refresh(pairA) fails with TokenReuseOrForged and Refresh(pairB)
\* passes the checks, whatever the clock second of the calls.
C1_Rotation ==
    RefreshOk =>
        /\ ErrKind(RefreshCheck(ev.inPair)) = "TokenReuseOrForged"
        /\ RefreshCheck(ev.outPair) = NoErr

\* C2: of two concurrent Refresh calls presenting the same still-valid pair
\* exactly one succeeds: it never happens that a call returns a pair with a new
\* refresh token after a concurrent call presenting the same pair has returned
\* one as well.
C2_ExactlyOneRefreshWins == ~(RefreshOk /\ ev.dup)

\* C3: once SignUp(username, password) has succeeded, Login(username, password)
\* passes every check and, when it returns, returns a pair of two non-empty
\* tokens; Login(username, p) with any other p fails with AuthenticationFailed
\* and returns the empty TokenPair.
C3_LoginAfterSignUp ==
    \A u \in Usernames, w \in Passwords :
        SignedUp(u, w) =>
            /\ LoginCheck(u, w) = NoErr
            /\ \A w2 \in Passwords \ {w} :
                   ErrKind(LoginCheck(u, w2)) = "AuthenticationFailed"
            /\ (ev.op = "login" /\ ev.uname = u /\ ev.pass = w) =>
                   /\ ev.err = NoErr
                   /\ ev.outPair.AccessToken # EmptyToken
                   /\ ev.outPair.RefreshToken # EmptyToken
            /\ (ev.op = "login" /\ ev.uname = u /\ ev.pass # w) =>
                   /\ ErrKind(ev.err) = "AuthenticationFailed"
                   /\ ev.outPair = EmptyPair

\* a Login with a wrong password has just failed for a user that logged in before
C3_Witness ==
    /\ ev.op = "login"
    /\ ev.err = ErrCheckPasswordHash
    /\ \E w \in Passwords \ {ev.pass} : SignedUp(ev.uname, w)
    /\ \E q \in issued : q.RefreshToken.id = ev.id

C5_LoginInvalidatesEarlier ==
    [][(ev'.op = "login" /\ ev'.err = NoErr) =>
          \A q \in issued :
              q.RefreshToken.id = ev'.id => (RefreshCheck(q) # NoErr)']_vars

\* C6: for each identity at most one refresh-token value passes the
\* stored-digest check.
C6_OneLiveRefreshToken ==
    \A id \in Registered : \A t1 \in AllTokens, t2 \in AllTokens :
        (Accepted(id, t1) /\ Accepted(id, t2)) => t1 = t2

\* an identity holds two different refresh tokens, one accepted and one not
C6_Witness ==
    \E q1 \in issued, q2 \in issued :
        /\ q1.RefreshToken # q2.RefreshToken
        /\ q1.RefreshToken.id = q2.RefreshToken.id
        /\ Accepted(q1.RefreshToken.id, q1.RefreshToken)
        /\ ~Accepted(q1.RefreshToken.id, q2.RefreshToken)

\* C7: a successful Refresh(pairA) returns a pair whose access token differs
\* from pairA's and whose refresh token differs from pairA's; the two tokens of
\* a pair returned by Login are non-empty and distinct.
C7_FreshTokens ==
    /\ RefreshOk =>
           /\ ev.outPair.AccessToken # ev.inPair.AccessToken
           /\ ev.outPair.RefreshToken # ev.inPair.RefreshToken
    /\ LoginOk =>
           /\ ev.outPair.AccessToken # EmptyToken
           /\ ev.outPair.RefreshToken # EmptyToken
           /\ ev.outPair.AccessToken # ev.outPair.RefreshToken

\* the pair presented in the last request: two validly signed, unexpired
\* tokens with different subject ids
CrossPair ==
    /\ ev.op = "refresh"
    /\ ValidateToken(ev.inPair.AccessToken, BlogTokenSignature)
    /\ ValidateToken(ev.inPair.RefreshToken, BlogTokenSignature)
    /\ ev.inPair.AccessToken.id # ev.inPair.RefreshToken.id

\* C8: Refresh of a pair whose two tokens are valid but carry different subject
\* ids fails with TokenMismatch and leaves the users table, hence the stored
\* digests of both identities, unchanged.
C8_CrossMismatch ==
    [][CrossPair' => (ErrKind(ev'.err) = "TokenMismatch" /\ users' = users)]_vars

\* such a Refresh has just failed, both subjects being registered with a digest
C8_Witness ==
    /\ CrossPair
    /\ ev.err = ErrIDMismatch
    /\ GetRefreshTokenByID(ev.inPair.AccessToken.id).err = NoErr
    /\ GetRefreshTokenByID(ev.inPair.RefreshToken.id).err = NoErr

\* the pairs of two tokens the server issued, unaltered, to one subject
SameSubjectPairs ==
    {q \in PresentablePairs : /\ q.AccessToken \in KnownTokens
                              /\ q.RefreshToken \in KnownTokens
                              /\ q.AccessToken.id = q.RefreshToken.id}

\* C9: a token whose exp is earlier than the current time is never accepted:
\* ValidateToken fails on it, JWTMiddleware answers 401, TokensIDCompare (and so
\* Refresh) fails with TokenInvalid on every pair that holds it in either
\* place; a token encoded with ttl = -1 second fails to decode at once.
C9_ExpiredNeverAccepted ==
    /\ \A t \in KnownTokens :
           t.exp < now =>
               /\ ~ValidateToken(t, BlogTokenSignature)
               /\ JWTMiddleware(t).status = 401
               /\ \A q \in PresentablePairs :
                      (q.AccessToken = t \/ q.RefreshToken = t) =>
                          /\ ErrKind(TokensIDCompare(q).err) = "TokenInvalid"
                          /\ ErrKind(RefreshCheck(q)) = "TokenInvalid"
    /\ \A id \in UserIDs, a \in BOOLEAN :
           ~ValidateToken(GenerateJWTToken(-1, id, a), BlogTokenSignature)
    /\ (ev.op = "auth" /\ ev.status # 401) => ev.inPair.AccessToken.exp >= now

\* a request bearing a token that expired a second ago has just been answered 401
C9_Witness ==
    /\ ev.op = "auth"
    /\ ev.status = 401
    /\ ev.inPair.AccessToken \in KnownTokens
    /\ ev.inPair.AccessToken.exp < now

\* C10 as stated: a token is rejected exactly when exp < now, so a token whose
\* exp equals the current second is still accepted, by JWTMiddleware and by the
\* token validation of Refresh alike.
C10_LastValidInstant ==
    /\ \A t \in KnownTokens : (JWTMiddleware(t).status = 401) <=> (t.exp < now)
    /\ \A q \in SameSubjectPairs :
           (TokensIDCompare(q).err # NoErr) <=>
               (q.AccessToken.exp < now \/ q.RefreshToken.exp < now)

\* C10, amended: a token the server issued is rejected exactly when
\* exp <= now: a token whose exp equals the current second is already
\* rejected, and JWTMiddleware, ValidateToken and the token validation of
\* Refresh (for either token of the pair) apply this same boundary.
C10_ExpiryBoundary ==
    /\ \A t \in KnownTokens :
           /\ (JWTMiddleware(t).status = 401) <=> (t.exp <= now)
           /\ ValidateToken(t, BlogTokenSignature) <=> (now < t.exp)
    /\ \A q \in SameSubjectPairs :
           (TokensIDCompare(q).err # NoErr) <=>
               (q.AccessToken.exp <= now \/ q.RefreshToken.exp <= now)

\* a Refresh has just failed on a pair whose refresh token expires this very
\* second and whose access token is still valid
C10_Witness ==
    /\ ev.op = "refresh"
    /\ ErrKind(ev.err) = "TokenInvalid"
    /\ ev.inPair \in SameSubjectPairs
    /\ ev.inPair.RefreshToken.exp = now
    /\ now < ev.inPair.AccessToken.exp

\* the bytes of a secret, not hashed
Plaintext(secret) == [wf |-> FALSE, of |-> secret]

\* C11: no plaintext secret is stored: the password column of every identity
\* holds a bcrypt digest, never the raw password given to SignUp, and the
\* refreshtoken column, once set, holds the bcrypt digest of the sha256 of a
\* refresh token, never the token itself, its bare sha256, or a digest of the
\* token without sha256.
C11_NoPlaintextStored ==
    \A id \in Registered :
        /\ users[id].password.wf
        /\ \E w \in Passwords : users[id].password = HashPassword(w)
        /\ \A w \in Passwords : users[id].password # Plaintext(w)
        /\ users[id].refreshToken # NoDigest =>
               /\ users[id].refreshToken.wf
               /\ \E t \in AllTokens :
                      users[id].refreshToken = HashPassword(Sha256(t))
               /\ \A t \in AllTokens :
                      /\ users[id].refreshToken.of # t
                      /\ users[id].refreshToken # Plaintext(Sha256(t))

\* an identity is stored with its password digest and a refresh digest
C11_Witness ==
    \E id \in Registered :
        /\ users[id].password = HashPassword("pw1234")
        /\ \E q \in issued : users[id].refreshToken = HashPassword(Sha256(q.RefreshToken))

\* lifetimes a token is generated with, in seconds
TTLs == {1, AccessTokenExpiration, RefreshTokenExpiration}

C13_PairLifetimes ==
    /\ \A id \in UserIDs, a \in BOOLEAN :
           LET q == GenerateTokenPair(id, a) IN
           /\ q.AccessToken.id = id /\ q.RefreshToken.id = id
           /\ q.AccessToken.isAdmin = a /\ q.RefreshToken.isAdmin = a
           /\ q.AccessToken.exp = now + 15 * 60
           /\ q.RefreshToken.exp = now + 72 * 60 * 60
           /\ q.AccessToken.exp < q.RefreshToken.exp
    /\ \A q \in issued :
           /\ q.AccessToken.id = q.RefreshToken.id
           /\ q.AccessToken.isAdmin = q.RefreshToken.isAdmin
           /\ q.RefreshToken.exp - q.AccessToken.exp = 72 * 60 * 60 - 15 * 60
    /\ (LoginOk \/ RefreshOk) =>
           /\ ev.outPair.AccessToken.id = ev.id
           /\ ev.outPair.AccessToken.isAdmin = ev.admin
           /\ ev.outPair.AccessToken.exp < ev.outPair.RefreshToken.exp

\* a Login has just returned a pair to the identity it was issued for
C13_Witness ==
    /\ LoginOk
    /\ ev.outPair \in issued
    /\ ev.outPair.RefreshToken.id = ev.id
    /\ ev.id \in Registered

\* C14: SignUp for a username that is already registered never reaches the
\* INSERT; it is rejected with ErrExist (AlreadyExists) and the users table is
\* left as it was: the existing identity keeps its id, password digest,
\* privilege flag and refresh digest.
C14_DuplicateRejected ==
    [][/\ \A p \in Procs :
              (pc[p].at = "idle" /\ pc'[p].at = "signup_insert") =>
                  RowsByUsername(pc'[p].uname) = {}
       /\ (ev'.op = "signup" /\ ev'.err = ErrExist) =>
              /\ RowsByUsername(ev'.uname) # {}
              /\ ErrKind(ev'.err) = "AlreadyExists"
              /\ ev'.status # 201
              /\ users' = users]_vars

\* a SignUp for the username of an identity that has logged in has just been
\* rejected with ErrExist
C14_Witness ==
    /\ ev.op = "signup"
    /\ ev.err = ErrExist
    /\ \E id \in Registered : /\ users[id].username = ev.uname
                               /\ users[id].refreshToken # NoDigest

C16_AdminNotDeletable ==
    [][ev'.op = "deleteuser" =>
         LET id == ev'.target IN
         /\ (id \in Registered /\ users[id].admin) =>
                /\ ev'.err # NoErr
                /\ ErrKind(ev'.err) = "Forbidden"
                /\ users' = users
                /\ GetDataByUsername(ev.uname)'.err = NoErr
                /\ GetDataByUsername(ev.uname)'.id = id
         /\ (id \in Registered /\ ~users[id].admin) =>
                /\ ev'.err = NoErr
                /\ GetDataByUsername(ev.uname)'.err # NoErr]_vars

\* an unprivileged identity has been deleted and, in the same run, the
\* deletion of an admin has just been refused to a privileged requester
C16_Witness ==
    /\ ev.op = "deleteuser"
    /\ ev.admin
    /\ ErrKind(ev.err) = "Forbidden"
    /\ ev.target \in Registered
    /\ users[ev.target].admin
    /\ \E id \in UserIDs : users[id] = DeletedRow

\* C17: a token under the server's signature that lacks one of the claims id,
\* isAdmin, exp, or holds one of another type, is refused with an error by
\* JWTMiddleware (401, the handler is not reached) and by Refresh (an error
\* of TokensIDCompare, no repository access, no new pair), in either place of
\* the pair, and never ends in a panic.
C17_MalformedClaimsRejected ==
    /\ (ev.op = "auth" /\ ev.inPair.AccessToken.shape # "ok") => ev.status = 401
    /\ (ev.op = "refresh" /\ (\/ ev.inPair.AccessToken.shape # "ok"
                               \/ ev.inPair.RefreshToken.shape # "ok")) =>
           /\ ev.err \notin {NoErr, ErrPanic}
           /\ ErrKind(ev.err) = "TokenInvalid"
           /\ ev.outPair = EmptyPair
    /\ \A p \in Procs :
           pc[p].at \in {"refresh_issue", "refresh_store"} =>
               /\ pc[p].inPair.AccessToken.shape = "ok"
               /\ pc[p].inPair.RefreshToken.shape = "ok"

\* C18: when DELETE /blogs/user/:id is answered 200, the blogs removed are
\* exactly the blogs whose owner is the id in the path, and no blog of another
\* user is removed.
C18_DeletesBlogsOfPathID ==
    [][(ev'.op = "DeleteByUserID" /\ ev'.status = 200) =>
         \A b \in BlogIDs :
             (blogs'[b] # blogs[b]) <=> (b \in BlogRows /\ blogs[b].userid = ev'.target)]_vars

\* a blog request that passed the middleware with a context that is no admin's
ByNonAdmin == ev'.status \notin {401, 500} /\ ~ev'.admin

\* the methods of the blog service that change the table
Mutating == {"Create", "Delete", "DeleteByUserID", "Update"}

Decodes(tokenPair) ==
    /\ ValidateToken(tokenPair.AccessToken, BlogTokenSignature)
    /\ ValidateToken(tokenPair.RefreshToken, BlogTokenSignature)

\* C22: Refresh decodes both tokens before anything else: when the access
\* token or the refresh token of the presented pair fails to decode (bad
\* signature, signing method outside the HMAC family, or expired), Refresh
\* fails with TokenInvalid, returns the empty pair and has made no Repository
\* call.
C22_DecodeFirst ==
    [][/\ (/\ ev'.op = "refresh"
           /\ pc' = pc
           /\ ~Decodes(ev'.inPair)) =>
              /\ ErrKind(ev'.err) = "TokenInvalid"
              /\ ev'.outPair = EmptyPair
              /\ ev'.calls = {}
              /\ users' = users
       /\ \A p \in Procs :
              (pc[p].at = "idle" /\ pc'[p].at = "refresh_issue") => Decodes(pc'[p].inPair)]_vars

\* C23: Refresh goes on to issue a new pair only if a refresh digest is stored
\* for the subject of the presented tokens and sha256 of the presented refresh
\* token verifies against it; when the stored digest is absent, malformed or
\* does not match, Refresh fails, returns the empty pair and does not call
\* AddRefreshToken: the users table is left as it was.  A Refresh returns a
\* new pair only after having passed this check.
C23_StoredDigestRequired ==
    [][/\ \A p \in Procs :
              (pc[p].at = "idle" /\ pc'[p].at = "refresh_issue") =>
                  /\ TokensIDCompare(pc'[p].inPair).err = NoErr
                  /\ pc'[p].id = TokensIDCompare(pc'[p].inPair).id
                  /\ Accepted(pc'[p].id, pc'[p].inPair.RefreshToken)
       /\ (/\ ev'.op = "refresh"
           /\ pc' = pc
           /\ TokensIDCompare(ev'.inPair).err = NoErr
           /\ ~Accepted(ev'.id, ev'.inPair.RefreshToken)) =>
              /\ ev'.err \in {ErrGetRefreshTokenByID, ErrRefreshTokenInvalid}
              /\ ev'.outPair = EmptyPair
       /\ (ev'.op = "refresh" /\ ev'.err # NoErr) =>
              /\ "AddRefreshToken" \notin ev'.calls
              /\ users' = users
       /\ (ev'.op = "refresh" /\ ev'.err = NoErr) =>
              \E p \in Procs : /\ pc[p].at = "refresh_store"
                                /\ pc[p].inPair = ev'.inPair
                                /\ pc'[p].at = "idle"]_vars

\* a Refresh of a pair the server issued has just failed because no digest is
\* stored for its subject any more
C23_Witness ==
    /\ ev.op = "refresh"
    /\ ev.err = ErrGetRefreshTokenByID
    /\ ev.inPair \in issued
    /\ TokensIDCompare(ev.inPair).err = NoErr
    /\ ev.calls = {"GetRefreshTokenByID"}

C25_FailureChangesNothing ==
    [][(ev'.op \in {"login", "refresh"} /\ ev'.err # NoErr) =>
          /\ users' = users
          /\ \A q \in issued : RefreshCheck(q) = NoErr => (RefreshCheck(q) = NoErr)']_vars

\* a Refresh has just failed on AddRefreshToken, a second after the presented
\* pair was issued, and the presented refresh token is still the live one
C25_Witness ==
    /\ ev.op = "refresh"
    /\ ev.fault = "AddRefreshToken"
    /\ ev.err = ErrAddRefreshToken
    /\ ev.inPair \in issued
    /\ ev.inPair.RefreshToken.exp < now + RefreshTokenExpiration
    /\ Accepted(ev.id, ev.inPair.RefreshToken)
    /\ RefreshCheck(ev.inPair) = NoErr

\* C26 as stated: the pair reissued by a successful Refresh carries the
\* subject id of the presented pair and the isAdmin value of the presented
\* refresh token's claims, never a flag that differs from the refresh token's.
C26_FlagFromRefreshToken ==
    RefreshOk =>
        /\ ev.outPair.AccessToken.id = ev.inPair.RefreshToken.id
        /\ ev.outPair.RefreshToken.id = ev.inPair.RefreshToken.id
        /\ ev.outPair.AccessToken.isAdmin = ev.inPair.RefreshToken.isAdmin
        /\ ev.outPair.RefreshToken.isAdmin = ev.inPair.RefreshToken.isAdmin

\* C26, amended: the pair reissued by a successful Refresh carries the subject
\* id that both presented tokens carry and the isAdmin value of the presented
\* access token's claims; the isAdmin claim of the refresh token is not read.
C26_FlagFromAccessToken ==
    RefreshOk =>
        /\ ev.inPair.AccessToken.id = ev.inPair.RefreshToken.id
        /\ ev.outPair.AccessToken.id = ev.inPair.RefreshToken.id
        /\ ev.outPair.RefreshToken.id = ev.inPair.RefreshToken.id
        /\ ev.outPair.AccessToken.isAdmin = ev.inPair.AccessToken.isAdmin
        /\ ev.outPair.RefreshToken.isAdmin = ev.inPair.AccessToken.isAdmin
        /\ ev.admin = ev.inPair.AccessToken.isAdmin

\* a Refresh has just succeeded on a pair whose two tokens carry different
\* isAdmin claims
C26_Witness ==
    /\ RefreshOk
    /\ ev.inPair.AccessToken.isAdmin # ev.inPair.RefreshToken.isAdmin
    /\ ev.outPair.RefreshToken.isAdmin = ev.inPair.AccessToken.isAdmin

\* C27: every Repository call of SignUp, Login and Refresh is made with the
\* caller's context: a call whose context has been cancelled carries out no
\* later Repository write, neither AddRefreshToken nor the insert of the user,
\* and the users table stays as it was.
C27_CallerContextHonoured ==
    [][\A p \in Procs :
          (pc[p].cancelled /\ pc'[p].at = "idle") =>
              /\ "AddRefreshToken" \notin ev'.calls
              /\ users' = users]_vars

\* the tokens returned to clients as the refresh token of a pair
RefreshTokens == {q.RefreshToken : q \in issued}

\* C28: token roles are not interchangeable: a token issued as the refresh
\* token of a pair is answered 401 by JWTMiddleware when it is sent as the
\* bearer token, and a Refresh given the same refresh token as accessToken and
\* as refreshToken fails.
C28_RolesNotInterchangeable ==
    /\ (ev.op = "auth" /\ ev.inPair.AccessToken \in RefreshTokens) => ev.status = 401
    /\ (/\ ev.op = "refresh"
        /\ ev.inPair.AccessToken \in RefreshTokens
        /\ ev.inPair.AccessToken = ev.inPair.RefreshToken) => ev.err # NoErr

\* the request's header is "Bearer <token>" (the scheme in any case) and the
\* token is HMAC-signed with the configured secret
SignedBearer ==
    /\ ev.header \in {"Bearer", "bearer"}
    /\ ev.inPair.AccessToken.kind = "jwt"
    /\ ev.inPair.AccessToken.key = BlogTokenSignature

\* the token of the request carries an exp claim that lies in the past or at
\* the current second
HasExpired ==
    /\ ev.inPair.AccessToken.shape \notin {"no_exp", "bad_exp"}
    /\ ev.inPair.AccessToken.exp <= now

\* C29: JWTMiddleware invokes the protected handler only for a request whose
\* Authorization header is "Bearer <token>" with a token that is HMAC-signed
\* with the configured secret and unexpired; whenever the handler runs, the
\* context values id and isAdmin are the id and isAdmin claims of that token;
\* every other request is answered 401 and the handler does not run.
C29_OnlyValidBearer ==
    ev.op = "request" =>
        /\ ev.status = 0 =>
               /\ SignedBearer
               /\ now < ev.inPair.AccessToken.exp
               /\ ev.inPair.AccessToken.shape = "ok"
               /\ ev.id = ev.inPair.AccessToken.id
               /\ ev.admin = ev.inPair.AccessToken.isAdmin
        /\ (~SignedBearer \/ HasExpired) => ev.status = 401

\* the handler has just run for a request bearing a token the server issued,
\* in the last second before the token expires
C29_Witness ==
    /\ ev.op = "request"
    /\ ev.status = 0
    /\ ev.header = "Bearer"
    /\ ev.inPair.AccessToken \in KnownTokens
    /\ ev.inPair.AccessToken.exp = now + 1
    /\ ev.id \in Registered

\* C30: last store wins. When a successful Login or Refresh of an identity
\* completes, concurrently with others or after them, the stored refresh
\* digest is the digest of the refresh token of the pair it returns, and the
\* refresh token of every pair returned to that identity by a call that
\* completed before is no longer accepted: exactly one returned pair is live.
C30_LastStoreWins ==
    [][\A id \in UserIDs :
          (ev'.op \in {"login", "refresh"} /\ ev'.err = NoErr /\ ev'.id = id) =>
              /\ \A q \in issued' :
                     q = ev'.outPair => Accepted(id, q.RefreshToken)'
              /\ \A q \in issued :
                     q.RefreshToken.id = id => ~Accepted(id, q.RefreshToken)']_vars

\* C21: the owner of every blog is the authenticated requester that created
\* it: a Create answered 201 stores the blog under the id claim of the
\* validated bearer token, whatever user id the body names, and no request
\* changes the owner of a blog that is still in the table afterwards.
C21_OwnerIsCreator ==
    [][/\ (ev'.op = "Create" /\ ev'.status = 201) =>
              /\ ValidateToken(ev'.inPair.AccessToken, BlogTokenSignature)
              /\ blogs[ev'.blog].state # "row"
              /\ blogs'[ev'.blog].state = "row"
              /\ blogs'[ev'.blog].userid = ev'.inPair.AccessToken.id
       /\ \A b \in BlogRows :
              blogs'[b].state = "row" => blogs'[b].userid = blogs[b].userid]_vars

\* a blog has just been created by a requester whose body named another user
C21_Witness ==
    /\ ev.op = "Create"
    /\ ev.status = 201
    /\ ev.target \notin {NilUUID, ev.id}
    /\ blogs[ev.blog].state = "row"
    /\ blogs[ev.blog].userid = ev.id

\* C20: no privilege escalation through registration. On a users table that
\* starts without an admin, no sequence of signup, signupadmin, login and
\* refresh requests produces an admin row or a token with isAdmin = true:
\* SignUpUser registers with Admin = false, and SignUpAdmin goes on only when
\* the middleware put isAdmin = true from a validated token in the context.
C20_NoEscalation ==
    /\ \A id \in Registered : ~users[id].admin
    /\ \A p \in Procs : /\ ~pc[p].admin
                         /\ ~pc[p].newPair.AccessToken.isAdmin
                         /\ ~pc[p].newPair.RefreshToken.isAdmin
    /\ \A t \in KnownTokens : ~t.isAdmin
    /\ ev.op = "signup" => ~ev.admin
    /\ ev.op = "signupadmin" => ev.status = 401
    /\ \A t \in KnownTokens \cup EscalatedTokens \cup CraftedTokens
              \cup {GenerateJWTToken(AccessTokenExpiration, id, TRUE) : id \in UserIDs} :
           AdminInContext(JWTMiddleware(t)) =>
               /\ ValidateToken(t, BlogTokenSignature)
               /\ t.isAdmin
               /\ t.shape = "ok"

\* a registered user has just asked for an admin registration with its own
\* valid token and was refused, after a refused attempt of an earlier step
\* left no admin behind
C20_Witness ==
    /\ ev.op = "signupadmin"
    /\ ev.status = 401
    /\ ev.msg = "Admin role not found in context"
    /\ ev.inPair.AccessToken \in KnownTokens
    /\ ev.id \in Registered
    /\ Cardinality(Registered) = 1

=============================================================================
